---- MODULE Spec2Model ----
(***************************************************************************)
(* Model of the voice client's playback path.                              *)
(*                                                                         *)
(*   AudioProcessor   frontend/react-web/public/audio-processor.js         *)
(*   Content          frontend/react-web/src/Content.js                    *)
(*                                                                         *)
(* Samples are modelled by their sequence number in the stream of appended *)
(* samples (1, 2, 3, ...), so that a lost, duplicated or reordered sample  *)
(* is visible; 0 stands for a sample of silence written by output.fill(0). *)
(* Sample counts are scaled down (see BlockSize, sampleRate,               *)
(* bufferThreshold); times are in milliseconds as in the code.             *)
(***************************************************************************)
EXTENDS Integers, Sequences, FiniteSets, TLC

(***************************************************************************)
(* Bounds of the model.                                                    *)
(***************************************************************************)
\* output.length: the size n of one render block (128 in a browser).
BlockSize == 2
\* sampleRate of the AudioWorkletGlobalScope (16000 in the application);
\* compaction happens once position > sampleRate * 5.
sampleRate == 1
\* this.bufferThreshold (8192 in the code), in the scaled sample unit.
bufferThreshold == 4
\* Longest frame of one `data` message.
MaxFrame == 3
\* Total number of samples appended in one run.
MaxAppended == 7
\* Date.now() advances by TimeStep ms, up to MaxTime.
TimeStep == 10000
MaxTime == 40000
\* Pulls made while waiting for the timeout are counted up to this value.
MaxWaitingFills == 101
\* The same, in the specification of the message routing.
MaxRouterFills == 2
\* Longest queue of pending timers and of messages in flight on the port.
MaxInFlight == 2
\* Number of times the effect is run with isEngaged = true in one run.
MaxEffects == 2
\* Timers of the session advance by TickMs.
TickMs == 1000
\* The ghost counter of bufferReset notifications saturates here.
MaxResetCount == 2
\* Longest transcript (entries of the messages state).
MaxMessages == 1
\* onopen handlers of one closure that are awaiting initMicrophone() at once.
MaxPending == 1
\* Heartbeat intervals of one closure that are running at once.
MaxIntervals == 1
\* The counts of capture pipelines and of config messages saturate here.
MaxMics == 2
MaxConfigs == 2
\* Samples appended in the side-by-side run with the processor that never
\* compacts.
MaxBothAppended == 13
\* Blocks captured from the microphone.
MaxCaptured == 3
\* Input samples of the codec are the multiples of 1/GridDen in [-2, 2].
GridDen == 20

(***************************************************************************)
(* Constants of the program.                                               *)
(***************************************************************************)
\* setupWebSocketConnection and the bufferReset handler (Content.js)
maxReconnectAttempts == 5
reconnectInterval == 2000
reengageDelay == 1000

\* initAudioWorklet (Content.js)
maxRetries == 3
retryDelay == 500

\* AudioProcessor constructor (audio-processor.js)
normalStarvationTimeout == 20000
kbStarvationTimeout == 30000
maxRecoveryAttempts == 10
maxSilenceFills == 100

VARIABLES
    ap,          \* the fields of the AudioProcessor instance
    now,         \* Date.now()
    nextSample,  \* sequence number of the next sample to be appended
    output,      \* outputs[0][0] as left by the last process() call, <<>> otherwise
    posted,      \* messages posted on the port by the last step, in order
    lastOp,      \* the operation performed by the last step
    clean,       \* ghost: no starved pull, clear, stop or reset so far
    pulled,      \* ghost: number of samples copied to output while clean
    clearRun,    \* ghost: number of consecutive `clear` messages just handled (0..2)
    episodeResets, \* ghost: bufferReset notifications posted by the pulls made
                 \* since the last port message (saturates at MaxResetCount)
    \* Content: message routing between the socket and the worklet
    timers,      \* pending setTimeout(..., 10) callbacks of onmessage, in firing order
    toWorklet,   \* messages posted to audioWorkletNodeRef.current.port, not yet handled
    toMain,      \* messages posted by the processor, not yet handled by the main thread
    isTalking,   \* React state isTalking
    seenTalking, \* isTalking as captured by the closure of the running effect
    stoppedUpTo, \* ghost: number of samples that had arrived on the socket before
                 \* the last `stop` the processor has handled
    messages,    \* React state messages (the transcript): its length
    \* Content: the session (engagement, effect closures, sockets, timers)
    session,
    wsSent,      \* messages sent on a socket by the last step, in order
    \* Content: the PCM16 codec
    codec,       \* one sample on its way through floatToPcm16 and pcm16ToFloat
    \* a processor that never compacts, fed like ap
    shadow,
    \* Content: the blocks captured by onaudioprocess and those sent
    capture,
    \* Content: the addModule retry loop of initAudioWorklet, per closure
    loader

apVars == <<ap, now, nextSample, output, posted, lastOp, clean, pulled, clearRun,
            episodeResets>>

routerVars == <<timers, toWorklet, toMain, isTalking, seenTalking, stoppedUpTo, messages>>

contentVars == <<routerVars, session, wsSent, codec, shadow, capture, loader>>

vars == <<apVars, contentVars>>

Min(a, b) == IF a < b THEN a ELSE b

Zeros == [i \in 1..BlockSize |-> 0]

\* frame of k samples starting at sequence number first
Frame(first, k) == [i \in 1..k |-> first + i - 1]

Count(seq, m) == Cardinality({i \in 1..Len(seq) : seq[i] = m})

Remaining(p) == Len(p.buffer) - p.position

\* buf[i] of a Float32Array, i counted from 1; a read past the end gives
\* undefined, which is stored in the output as NaN (-1 here).
At(buf, i) == IF i \in 1..Len(buf) THEN buf[i] ELSE -1

\* slice that drops the first unread element as well
SliceDropsOne(buf, from) == SubSeq(buf, from + 2, Len(buf))

\* slice that keeps the last consumed element
SliceKeepsOne(buf, from) == SubSeq(buf, from, Len(buf))

\* buffer.slice(from): the elements after the first `from`
Slice(buf, from) == SubSeq(buf, from + 1, Len(buf))

(***************************************************************************)
(* AudioProcessor                                                          *)
(***************************************************************************)
NewAudioProcessor(t) ==
    [ buffer |-> <<>>,
      position |-> 0,
      isPlaying |-> TRUE,
      lastDataTime |-> t,
      starvationTimeout |-> kbStarvationTimeout,
      needDataRequested |-> FALSE,
      recoveryAttempts |-> 0,
      isKnowledgeBaseQuery |-> FALSE,
      silenceFillCount |-> 0,
      adaptiveBufferMode |-> FALSE ]

\* data that leaves the count of recovery attempts
OnDataKeepsAttempts(p, audio, t) ==
    [p EXCEPT !.buffer = p.buffer \o audio,
              !.isPlaying = TRUE,
              !.lastDataTime = t,
              !.needDataRequested = FALSE,
              !.silenceFillCount = 0]

\* port.onmessage, type 'data'
OnData(p, audio, t) ==
    [p EXCEPT !.buffer = p.buffer \o audio,
              !.isPlaying = TRUE,
              !.lastDataTime = t,
              !.needDataRequested = FALSE,
              !.recoveryAttempts = 0,
              !.silenceFillCount = 0]

\* clear that makes the processor play again
OnClearResumes(p) ==
    [p EXCEPT !.buffer = <<>>,
              !.position = 0,
              !.isPlaying = TRUE,
              !.needDataRequested = FALSE,
              !.silenceFillCount = 0]

\* clear that leaves the cursor where it is
OnClearKeepsPosition(p) ==
    [p EXCEPT !.buffer = <<>>,
              !.needDataRequested = FALSE,
              !.silenceFillCount = 0]

\* clear that counts a recovery attempt
OnClearCountsAttempt(p) ==
    [p EXCEPT !.buffer = <<>>,
              !.position = 0,
              !.needDataRequested = FALSE,
              !.recoveryAttempts = IF @ < maxRecoveryAttempts THEN @ + 1 ELSE 0,
              !.silenceFillCount = 0]

\* port.onmessage, type 'clear'
OnClear(p) ==
    [p EXCEPT !.buffer = <<>>,
              !.position = 0,
              !.needDataRequested = FALSE,
              !.silenceFillCount = 0]

\* port.onmessage, type 'stop' (also posts 'stopped')
OnStop(p) ==
    [p EXCEPT !.buffer = <<>>,
              !.position = 0,
              !.isPlaying = FALSE,
              !.needDataRequested = FALSE,
              !.silenceFillCount = 0]

\* port.onmessage, type 'kb_mode_on'
OnKbModeOn(p) ==
    [p EXCEPT !.isKnowledgeBaseQuery = TRUE,
              !.starvationTimeout = kbStarvationTimeout,
              !.adaptiveBufferMode = TRUE]

\* leaving the mode with the recovery counters cleared
OnKbModeOffClearsCounters(p) ==
    [p EXCEPT !.isKnowledgeBaseQuery = FALSE,
              !.starvationTimeout = normalStarvationTimeout,
              !.adaptiveBufferMode = FALSE,
              !.recoveryAttempts = 0,
              !.silenceFillCount = 0]

\* port.onmessage, type 'kb_mode_off'
OnKbModeOff(p) ==
    [p EXCEPT !.isKnowledgeBaseQuery = FALSE,
              !.starvationTimeout = normalStarvationTimeout,
              !.adaptiveBufferMode = FALSE]

\* The methods below work on a pair s = [p |-> fields, posted |-> messages
\* posted so far in this call].
Threshold(p) == IF p.adaptiveBufferMode THEN bufferThreshold * 2 ELSE bufferThreshold

requestMoreDataIfNeeded(s) ==
    IF Remaining(s.p) < Threshold(s.p) /\ ~s.p.needDataRequested
    THEN [p |-> [s.p EXCEPT !.needDataRequested = TRUE],
          posted |-> Append(s.posted, "needData")]
    ELSE s

\* one more attempt than the maximum
AttemptsLeftOrOneMore(p) == p.recoveryAttempts <= maxRecoveryAttempts

\* handleStarvation: this.recoveryAttempts < this.maxRecoveryAttempts
AttemptsLeft(p) == p.recoveryAttempts < maxRecoveryAttempts

\* handleStarvation: returns the pair and the boolean result of the method.
\* output.fill(0) is done by the caller as well and is not repeated here.
handleStarvation(s, t) ==
    IF t - s.p.lastDataTime > s.p.starvationTimeout
    THEN IF AttemptsLeft(s.p)
         THEN LET a == [p |-> [s.p EXCEPT !.recoveryAttempts = @ + 1,
                                          !.silenceFillCount = @ + 1,
                                          !.needDataRequested = FALSE],
                        posted |-> s.posted]
                  b == requestMoreDataIfNeeded(a)
              IN  IF b.p.silenceFillCount > maxSilenceFills
                  THEN [p |-> [b.p EXCEPT !.buffer = <<>>,
                                          !.position = 0,
                                          !.silenceFillCount = 0],
                        posted |-> Append(b.posted, "bufferReset"),
                        ret |-> TRUE]
                  ELSE [p |-> b.p, posted |-> b.posted, ret |-> TRUE]
         ELSE [p |-> [s.p EXCEPT !.buffer = <<>>,
                                 !.position = 0,
                                 !.needDataRequested = FALSE,
                                 !.recoveryAttempts = 0,
                                 !.silenceFillCount = 0],
               posted |-> Append(s.posted, "bufferReset"),
               ret |-> FALSE]
    ELSE [p |-> s.p, posted |-> s.posted, ret |-> TRUE]

\* the test of process with <= 0 in place of < output.length
NotEnoughWhenEmpty(p) == Remaining(p) <= 0

\* process: this.buffer.length - this.position < output.length
NotEnough(p) == Remaining(p) < BlockSize

\* compaction one block later
CompactionDueLater(p) == p.position > sampleRate * 5 + BlockSize

\* process: this.position > sampleRate * 5
CompactionDue(p) == p.position > sampleRate * 5

\* process(inputs, outputs, parameters): the fields after the call, the
\* messages posted and the output block.
process(p0, t) ==
    IF ~p0.isPlaying
    THEN [p |-> p0, posted |-> <<>>, output |-> Zeros]
    ELSE LET s1 == requestMoreDataIfNeeded([p |-> p0, posted |-> <<>>])
         IN  IF NotEnough(s1.p)
             THEN LET h == handleStarvation(s1, t)
                  IN  IF ~h.ret
                      THEN [p |-> h.p, posted |-> h.posted, output |-> Zeros]
                      ELSE [p |-> [h.p EXCEPT !.silenceFillCount = @ + 1],
                            posted |-> h.posted, output |-> Zeros]
             ELSE LET q == [s1.p EXCEPT !.position = @ + BlockSize,
                                        !.silenceFillCount = 0]
                      out == [i \in 1..BlockSize |-> At(s1.p.buffer, s1.p.position + i)]
                  IN  IF CompactionDue(q)
                      THEN [p |-> [q EXCEPT !.buffer = Slice(q.buffer, q.position),
                                            !.position = 0],
                            posted |-> s1.posted, output |-> out]
                      ELSE [p |-> q, posted |-> s1.posted, output |-> out]

(***************************************************************************)
(* The processor without compaction: process with the clean-up of the      *)
(* consumed prefix left out. It is run side by side with ap.                *)
(***************************************************************************)
processNoCompaction(p0, t) ==
    IF ~p0.isPlaying
    THEN [p |-> p0, posted |-> <<>>, output |-> Zeros]
    ELSE LET s1 == requestMoreDataIfNeeded([p |-> p0, posted |-> <<>>])
         IN  IF NotEnough(s1.p)
             THEN LET h == handleStarvation(s1, t)
                  IN  IF ~h.ret
                      THEN [p |-> h.p, posted |-> h.posted, output |-> Zeros]
                      ELSE [p |-> [h.p EXCEPT !.silenceFillCount = @ + 1],
                            posted |-> h.posted, output |-> Zeros]
             ELSE [p |-> [s1.p EXCEPT !.position = @ + BlockSize,
                                      !.silenceFillCount = 0],
                   posted |-> s1.posted,
                   output |-> [i \in 1..BlockSize |-> At(s1.p.buffer, s1.p.position + i)]]

NewShadow == [p |-> NewAudioProcessor(0), posted |-> <<>>, output |-> <<>>]

(***************************************************************************)
(* Content: the PCM16 codec. A sample is the rational input / GridDen; an  *)
(* Int16 is an integer; the decoded float is the rational float / 32768.   *)
(***************************************************************************)
\* the value stored by an Int16Array for the rational num / den: the
\* fraction is dropped (towards zero) and the integer is taken modulo 2^16
ToInt16(num, den) ==
    LET int == IF num >= 0 THEN num \div den ELSE -((-num) \div den)
        u == int % 65536
    IN  IF u >= 32768 THEN u - 65536 ELSE u

\* floatToPcm16 without the clamp
floatToPcm16NoClamp(n) ==
    IF n < 0 THEN ToInt16(n * 32768, GridDen) ELSE ToInt16(n * 32767, GridDen)

\* floatToPcm16 for the sample n / GridDen
floatToPcm16(n) ==
    LET sn == IF n < -GridDen THEN -GridDen ELSE IF n > GridDen THEN GridDen ELSE n
    IN  IF sn < 0 THEN ToInt16(sn * 32768, GridDen) ELSE ToInt16(sn * 32767, GridDen)

\* view.setInt16(index * 2, value, true): the two bytes, low byte first
setInt16(v) == <<(v % 65536) % 256, (v % 65536) \div 256>>

\* dataView.getInt16(i * 2, true)
getInt16(bytes) ==
    LET u == bytes[1] + 256 * bytes[2]
    IN  IF u >= 32768 THEN u - 65536 ELSE u

\* pcm16ToFloat for one sample: the numerator of int16 / 32768.0
pcm16ToFloat(bytes) == getInt16(bytes)

NewCodec(n) == [phase |-> "input", input |-> n, pcm16 |-> 0, bytes |-> <<>>, float |-> 0]

(***************************************************************************)
(* Content: state of the session (see the session actions below).          *)
(***************************************************************************)
NoTimer == -1

Effects == 1..MaxEffects

\* the closure of one effect run; made is a ghost
NewClosure ==
    [ phase |-> "unused",             \* "unused", "initAudio" (in await initAudioWorklet()), "setup"
      engaged |-> TRUE,               \* isEngaged as captured by the closure
      reconnectAttempts |-> 0,
      reconnectTimeout |-> NoTimer,   \* ms left of the pending setTimeout, or NoTimer
      ws |-> "none",                  \* readyState of the last socket made by connect()
      made |-> 0,                     \* ghost: reconnections made since the last open
      heartbeatInterval |-> FALSE,    \* heartbeatInterval holds a running interval
      intervals |-> 0,                \* running intervals made by setInterval in this closure
      pending |-> 0,                  \* onopen handlers awaiting initMicrophone()
      configs |-> 0 ]                 \* ghost: config messages sent on the last socket

NewSession ==
    [ isEngaged |-> FALSE,
      effects |-> [e \in Effects |-> NewClosure],
      nEffects |-> 0,                 \* closures created so far; the last is the current one
      wsRef |-> 0,                    \* closure whose socket wsRef.current is, 0 for null
      audioCtx |-> "none",            \* audioContextRef.current: "none", "running", "closed"
      workletNode |-> FALSE,          \* audioWorkletNodeRef.current is set
      reengage |-> NoTimer,           \* ms left of the bufferReset handler's setTimeout
      mics |-> 0,                     \* capture pipelines running on the audio context
      userOff |-> FALSE ]             \* ghost: the last click of the user was Disengage

\* no block captured, none sent
NewCapture == [n |-> 0, sent |-> <<>>]

\* initAudioWorklet of a closure: step is "begin" before the audio context is
\* made, "addModule" when addModule is to be called, "waiting" during the
\* delay after a failed call and "done" after the return; retries is the
\* variable of the loop, calls the number of addModule calls made
NewLoader ==
    [e \in Effects |-> [step |-> "begin", retries |-> 0, calls |-> 0, wait |-> NoTimer]]

(***************************************************************************)
(* The processor driven directly by port messages, pulls and the clock.    *)
(***************************************************************************)
Init ==
    /\ ap = NewAudioProcessor(0)
    /\ now = 0
    /\ nextSample = 1
    /\ output = <<>>
    /\ posted = <<>>
    /\ lastOp = "new"
    /\ clean = TRUE
    /\ pulled = 0
    /\ clearRun = 0
    /\ episodeResets = 0
    /\ timers = <<>>
    /\ toWorklet = <<>>
    /\ toMain = <<>>
    /\ isTalking = FALSE
    /\ seenTalking = FALSE
    /\ stoppedUpTo = 0
    /\ messages = 0
    /\ session = NewSession
    /\ wsSent = <<>>
    /\ codec = NewCodec(0)
    /\ shadow = NewShadow
    /\ capture = NewCapture
    /\ loader = NewLoader

Data ==
    \E k \in 1..MaxFrame :
        /\ nextSample + k - 1 <= MaxAppended
        /\ ap' = OnData(ap, Frame(nextSample, k), now)
        /\ nextSample' = nextSample + k
        /\ output' = <<>>
        /\ posted' = <<>>
        /\ lastOp' = "data"
        /\ clearRun' = 0
        /\ episodeResets' = 0
        /\ UNCHANGED <<now, clean, pulled>>
        /\ UNCHANGED contentVars

Clear ==
    /\ ap' = OnClear(ap)
    /\ output' = <<>>
    /\ posted' = <<>>
    /\ lastOp' = "clear"
    /\ clean' = FALSE
    /\ pulled' = 0
    /\ clearRun' = Min(clearRun + 1, 2)
    /\ episodeResets' = 0
    /\ UNCHANGED <<now, nextSample>>
    /\ UNCHANGED contentVars

Stop ==
    /\ ap' = OnStop(ap)
    /\ output' = <<>>
    /\ posted' = <<"stopped">>
    /\ lastOp' = "stop"
    /\ clean' = FALSE
    /\ pulled' = 0
    /\ clearRun' = 0
    /\ episodeResets' = 0
    /\ UNCHANGED <<now, nextSample>>
    /\ UNCHANGED contentVars

KbModeOn ==
    /\ ap' = OnKbModeOn(ap)
    /\ output' = <<>>
    /\ posted' = <<>>
    /\ lastOp' = "kb_mode_on"
    /\ clearRun' = 0
    /\ episodeResets' = 0
    /\ UNCHANGED <<now, nextSample, clean, pulled>>
    /\ UNCHANGED contentVars

KbModeOff ==
    /\ ap' = OnKbModeOff(ap)
    /\ output' = <<>>
    /\ posted' = <<>>
    /\ lastOp' = "kb_mode_off"
    /\ clearRun' = 0
    /\ episodeResets' = 0
    /\ UNCHANGED <<now, nextSample, clean, pulled>>
    /\ UNCHANGED contentVars

\* A pull is starved when it is made while playing with fewer than
\* BlockSize unread samples.
Starved(p) == p.isPlaying /\ Remaining(p) < BlockSize

TimedOut(p, t) == t - p.lastDataTime > p.starvationTimeout

Process ==
    LET r == process(ap, now)
    IN  \* pulls made while waiting for the timeout are counted up to MaxWaitingFills
        /\ (Starved(ap) /\ ~TimedOut(ap, now)) => ap.silenceFillCount < MaxWaitingFills
        /\ ap' = r.p
        /\ output' = r.output
        /\ posted' = r.posted
        /\ lastOp' = "process"
        /\ clean' = (clean /\ ap.isPlaying /\ ~Starved(ap))
        /\ pulled' = IF clean' THEN pulled + BlockSize ELSE 0
        /\ clearRun' = 0
        /\ episodeResets' =
               Min(episodeResets + Count(r.posted, "bufferReset"), MaxResetCount)
        /\ UNCHANGED <<now, nextSample>>
        /\ UNCHANGED contentVars

Tick ==
    /\ now + TimeStep <= MaxTime
    /\ now' = now + TimeStep
    /\ output' = <<>>
    /\ posted' = <<>>
    /\ lastOp' = "tick"
    /\ clearRun' = 0
    /\ UNCHANGED <<ap, nextSample, clean, pulled, episodeResets>>
    /\ UNCHANGED contentVars

Next ==
    \/ Data
    \/ Clear
    \/ Stop
    \/ KbModeOn
    \/ KbModeOff
    \/ Process
    \/ Tick

Spec == Init /\ [][Next]_vars

(***************************************************************************)
(* The processor pulled for ever with no clear and no stop: the audio      *)
(* system keeps calling process and the clock keeps advancing. Data        *)
(* arrives early enough for the starvation timeout to elapse within        *)
(* MaxTime.                                                                *)
(***************************************************************************)
TailData ==
    /\ now + kbStarvationTimeout + TimeStep <= MaxTime
    /\ Data

TailProcess ==
    LET r == process(ap, now)
    IN  \* pulls made while waiting for the timeout are counted up to MaxRouterFills
        /\ (Starved(ap) /\ ~TimedOut(ap, now)) => ap.silenceFillCount < MaxRouterFills
        /\ ap' = r.p
        /\ output' = r.output
        /\ posted' = r.posted
        /\ lastOp' = "process"
        /\ clean' = (clean /\ ap.isPlaying /\ ~Starved(ap))
        /\ pulled' = IF clean' THEN pulled + BlockSize ELSE 0
        /\ clearRun' = 0
        /\ episodeResets' =
               Min(episodeResets + Count(r.posted, "bufferReset"), MaxResetCount)
        /\ UNCHANGED <<now, nextSample>>
        /\ UNCHANGED contentVars

TailNext ==
    \/ TailData
    \/ TailProcess
    \/ Tick

TailSpec == Init /\ [][TailNext]_vars /\ WF_vars(TailProcess) /\ WF_vars(Tick)

(***************************************************************************)
(* The processor and the processor without compaction, fed with the same   *)
(* messages and pulled at the same times.                                  *)
(***************************************************************************)
bothUnchanged == <<nextSample, clean, pulled, clearRun, episodeResets, routerVars,
                   session, wsSent, codec, capture, loader>>

BothData ==
    \E k \in 1..MaxFrame :
        /\ nextSample + k - 1 <= MaxBothAppended
        /\ ap' = OnData(ap, Frame(nextSample, k), now)
        /\ shadow' = [p |-> OnData(shadow.p, Frame(nextSample, k), now),
                      posted |-> <<>>, output |-> <<>>]
        /\ nextSample' = nextSample + k
        /\ output' = <<>>
        /\ posted' = <<>>
        /\ lastOp' = "data"
        /\ UNCHANGED <<now, clean, pulled, clearRun, episodeResets, routerVars,
                       session, wsSent, codec, capture, loader>>

BothClear ==
    /\ ap' = OnClear(ap)
    /\ shadow' = [p |-> OnClear(shadow.p), posted |-> <<>>, output |-> <<>>]
    /\ output' = <<>>
    /\ posted' = <<>>
    /\ lastOp' = "clear"
    /\ UNCHANGED <<now, bothUnchanged>>

BothProcess ==
    LET r == process(ap, now)
        n == processNoCompaction(shadow.p, now)
    IN  \* pulls made while waiting for the timeout are counted up to MaxRouterFills
        /\ (Starved(ap) /\ ~TimedOut(ap, now)) => ap.silenceFillCount < MaxRouterFills
        /\ ap' = r.p
        /\ output' = r.output
        /\ posted' = r.posted
        /\ shadow' = n
        /\ lastOp' = "process"
        /\ UNCHANGED <<now, bothUnchanged>>

BothTick ==
    /\ now + TimeStep <= MaxTime
    /\ now' = now + TimeStep
    /\ shadow' = [shadow EXCEPT !.posted = <<>>, !.output = <<>>]
    /\ output' = <<>>
    /\ posted' = <<>>
    /\ lastOp' = "tick"
    /\ UNCHANGED <<ap, bothUnchanged>>

CompactionNext ==
    \/ BothData
    \/ BothClear
    \/ BothProcess
    \/ BothTick

CompactionSpec == Init /\ [][CompactionNext]_vars

(***************************************************************************)
(* The PCM16 codec applied to one sample: onaudioprocess encodes the       *)
(* sample and writes its two bytes, onmessage (media) decodes them.        *)
(***************************************************************************)
codecUnchanged == <<apVars, routerVars, session, wsSent, shadow, capture, loader>>

CodecInit ==
    /\ ap = NewAudioProcessor(0)
    /\ now = 0
    /\ nextSample = 1
    /\ output = <<>>
    /\ posted = <<>>
    /\ lastOp = "new"
    /\ clean = TRUE
    /\ pulled = 0
    /\ clearRun = 0
    /\ episodeResets = 0
    /\ timers = <<>>
    /\ toWorklet = <<>>
    /\ toMain = <<>>
    /\ isTalking = FALSE
    /\ seenTalking = FALSE
    /\ stoppedUpTo = 0
    /\ messages = 0
    /\ session = NewSession
    /\ wsSent = <<>>
    /\ shadow = NewShadow
    /\ capture = NewCapture
    /\ loader = NewLoader
    /\ \E n \in (-2 * GridDen)..(2 * GridDen) : codec = NewCodec(n)

Encode ==
    /\ codec.phase = "input"
    /\ LET v == floatToPcm16(codec.input)
       IN  codec' = [codec EXCEPT !.phase = "pcm16", !.pcm16 = v, !.bytes = setInt16(v)]
    /\ UNCHANGED codecUnchanged

Decode ==
    /\ codec.phase = "pcm16"
    /\ codec' = [codec EXCEPT !.phase = "float", !.float = pcm16ToFloat(codec.bytes)]
    /\ UNCHANGED codecUnchanged

CodecNext ==
    \/ Encode
    \/ Decode

CodecSpec == CodecInit /\ [][CodecNext]_vars

(***************************************************************************)
(* Content: routing of the incoming socket messages to the processor.      *)
(* One socket is open and the worklet node exists; the processor is pulled *)
(* by the audio clock while the main thread handles socket messages,       *)
(* timers and the messages posted by the processor.                        *)
(***************************************************************************)
\* port.postMessage({type, audio}); upTo is a ghost: the number of samples
\* that had arrived on the socket when the message was posted.
PortMsg(type, audio, upTo) == [type |-> type, audio |-> audio, upTo |-> upTo]

RouterInit ==
    /\ ap = NewAudioProcessor(0)
    /\ now = 0
    /\ nextSample = 1
    /\ output = <<>>
    /\ posted = <<>>
    /\ lastOp = "new"
    /\ clean = TRUE
    /\ pulled = 0
    /\ clearRun = 0
    /\ episodeResets = 0
    /\ timers = <<>>
    /\ toWorklet = <<>>
    /\ toMain = <<>>
    /\ isTalking = FALSE
    /\ seenTalking = FALSE
    /\ stoppedUpTo = 0
    /\ messages = 0
    /\ session = NewSession
    /\ wsSent = <<>>
    /\ codec = NewCodec(0)
    /\ shadow = NewShadow
    /\ capture = NewCapture
    /\ loader = NewLoader

\* left alone by the routing actions
apGhosts == <<clean, pulled, clearRun, episodeResets, session, wsSent, codec, shadow,
             capture, loader>>

\* wsRef.current.onmessage, chunk.event === 'media': the frame is decoded and
\* its hand-off to the worklet is deferred by setTimeout(..., 10).
WsMedia ==
    \E k \in 1..MaxFrame :
        /\ nextSample + k - 1 <= MaxAppended
        /\ Len(timers) < MaxInFlight
        /\ timers' = Append(timers, Frame(nextSample, k))
        /\ nextSample' = nextSample + k
        /\ output' = <<>>
        /\ posted' = <<>>
        /\ lastOp' = "ws_media"
        /\ UNCHANGED <<ap, now, apGhosts, toWorklet, toMain, isTalking, seenTalking,
                       stoppedUpTo, messages>>

\* wsRef.current.onmessage, chunk.event === 'stop'
WsStop ==
    /\ Len(toWorklet) < MaxInFlight
    /\ toWorklet' = Append(toWorklet, PortMsg("stop", <<>>, nextSample - 1))
    /\ isTalking' = FALSE
    /\ output' = <<>>
    /\ posted' = <<>>
    /\ lastOp' = "ws_stop"
    /\ UNCHANGED <<ap, now, nextSample, apGhosts, timers, toMain, seenTalking, stoppedUpTo,
                   messages>>

\* an unrecognized message that is answered with a clear
onmessagePostsClear(kind, upTo) ==
    IF kind \in {"malformed", "bad_media", "unrecognized"}
    THEN <<PortMsg("clear", <<>>, upTo)>>
    ELSE <<>>

\* the messages that wsRef.current.onmessage posts to the worklet port for an
\* incoming message that is not valid JSON ("malformed": JSON.parse throws,
\* outer catch), a media message whose payload does not decode ("bad_media":
\* atob throws, inner catch), or a message that matches no branch or the
\* pong branch
onmessagePosts(kind, upTo) ==
    IF kind \in {"malformed", "bad_media"}
    THEN <<PortMsg("clear", <<>>, upTo)>>
    ELSE <<>>

\* wsRef.current.onmessage, event.data not valid JSON or a media payload
\* that fails to decode
WsMalformed ==
    \E kind \in {"malformed", "bad_media"} :
        /\ Len(toWorklet) < MaxInFlight
        /\ toWorklet' = toWorklet \o onmessagePosts(kind, nextSample - 1)
        /\ output' = <<>>
        /\ posted' = <<>>
        /\ lastOp' = "ws_malformed"
        /\ UNCHANGED <<ap, now, nextSample, apGhosts, timers, toMain, isTalking,
                       seenTalking, stoppedUpTo, messages>>

\* wsRef.current.onmessage, chunk.event === 'text': an entry is added to the
\* transcript
WsText ==
    /\ messages < MaxMessages
    /\ messages' = messages + 1
    /\ output' = <<>>
    /\ posted' = <<>>
    /\ lastOp' = "ws_text"
    /\ UNCHANGED <<ap, now, nextSample, apGhosts, timers, toWorklet, toMain, isTalking,
                   seenTalking, stoppedUpTo>>

\* wsRef.current.onmessage, chunk.type === 'pong' or a chunk that matches no
\* branch of the dispatch
WsIgnored ==
    \E kind \in {"pong", "unrecognized"} :
        /\ Len(toWorklet) + Len(onmessagePosts(kind, nextSample - 1)) <= MaxInFlight
        /\ toWorklet' = toWorklet \o onmessagePosts(kind, nextSample - 1)
        /\ output' = <<>>
        /\ posted' = <<>>
        /\ lastOp' = "ws_ignored"
        /\ UNCHANGED <<ap, now, nextSample, apGhosts, timers, toMain, isTalking,
                       seenTalking, stoppedUpTo, messages>>

\* the timer set last runs first
DueLast(q) == Len(q)

\* setTimeout(..., 10): the timers have the same delay, so the one set first
\* is the one that runs first
Due(q) == 1

\* the queue q without its i-th element
Without(q, i) == SubSeq(q, 1, i - 1) \o SubSeq(q, i + 1, Len(q))

\* the callback of setTimeout(..., 10) set by the media branch of onmessage
TimerFires ==
    /\ timers # <<>>
    /\ Len(toWorklet) < MaxInFlight
    /\ toWorklet' = Append(toWorklet, PortMsg("data", timers[Due(timers)], 0))
    /\ isTalking' = IF ~seenTalking THEN TRUE ELSE isTalking
    /\ timers' = Without(timers, Due(timers))
    /\ output' = <<>>
    /\ posted' = <<>>
    /\ lastOp' = "timer"
    /\ UNCHANGED <<ap, now, nextSample, apGhosts, toMain, seenTalking, stoppedUpTo,
                   messages>>

\* AudioProcessor.port.onmessage for the oldest message in flight
PortDelivers ==
    /\ toWorklet # <<>>
    /\ LET m == Head(toWorklet)
       IN  /\ toWorklet' = Tail(toWorklet)
           /\ lastOp' = m.type
           /\ output' = <<>>
           /\ IF m.type = "data"
              THEN /\ ap' = OnData(ap, m.audio, now)
                   /\ posted' = <<>>
                   /\ UNCHANGED <<toMain, stoppedUpTo>>
              ELSE IF m.type = "clear"
              THEN /\ ap' = OnClear(ap)
                   /\ posted' = <<>>
                   /\ UNCHANGED <<toMain, stoppedUpTo>>
              ELSE /\ Len(toMain) < MaxInFlight
                   /\ ap' = OnStop(ap)
                   /\ posted' = <<"stopped">>
                   /\ toMain' = Append(toMain, "stopped")
                   /\ stoppedUpTo' = m.upTo
    /\ UNCHANGED <<now, nextSample, apGhosts, timers, isTalking, seenTalking, messages>>

\* AudioProcessor.process, called by the audio clock
RouterProcess ==
    LET r == process(ap, now)
    IN  /\ Starved(ap) => ap.silenceFillCount < MaxRouterFills
        /\ Len(toMain) + Len(r.posted) <= MaxInFlight
        /\ ap' = r.p
        /\ output' = r.output
        /\ posted' = r.posted
        /\ toMain' = toMain \o r.posted
        /\ lastOp' = "process"
        /\ UNCHANGED <<now, nextSample, apGhosts, timers, toWorklet, isTalking,
                       seenTalking, stoppedUpTo, messages>>

\* audioWorkletNodeRef.current.port.onmessage for the oldest message posted
\* by the processor: needData and stopped switch the talking indicator off.
MainDelivers ==
    /\ toMain # <<>>
    /\ toMain' = Tail(toMain)
    /\ isTalking' = IF Head(toMain) \in {"needData", "stopped"} THEN FALSE ELSE isTalking
    /\ output' = <<>>
    /\ posted' = <<>>
    /\ lastOp' = "main"
    /\ UNCHANGED <<ap, now, nextSample, apGhosts, timers, toWorklet, seenTalking,
                   stoppedUpTo, messages>>

RouterNext ==
    \/ WsMedia
    \/ WsStop
    \/ TimerFires
    \/ PortDelivers
    \/ RouterProcess
    \/ MainDelivers

RouterSpec == RouterInit /\ [][RouterNext]_vars

(***************************************************************************)
(* Content: the long-task messages. kb_processing and knowledge_base carry *)
(* a JSON text in chunk.data; its kinds are "object" (parses to an         *)
(* object), "results" (an object with retrievalResults), "unparsable"      *)
(* (JSON.parse throws) and "null" (parses to null).                        *)
(***************************************************************************)
KbPayloads == {"object", "results", "unparsable", "null"}

\* the messages posted to the port by the kb_processing branch: an
\* unparsable payload is replaced by a default object; for null the read of
\* processingData.knowledgeBaseId throws and the catch of the branch posts
\* nothing
kbProcessingPosts(payload) ==
    IF payload = "null"
    THEN <<>>
    ELSE <<PortMsg("kb_mode_on", <<>>, 0)>>

\* the messages posted to the port by the knowledge_base branch: kb_mode_off
\* at the end of the try block, or in its catch for an unparsable or empty
\* payload
knowledgeBasePosts(payload) == <<PortMsg("kb_mode_off", <<>>, 0)>>

\* wsRef.current.onmessage, chunk.event === 'kb_processing': one entry is
\* added to the transcript on every path
WsKbProcessing ==
    \E payload \in KbPayloads \ {"results"} :
        /\ Len(toWorklet) < MaxInFlight
        /\ toWorklet' = toWorklet \o kbProcessingPosts(payload)
        /\ messages' = Min(messages + 1, MaxMessages)
        /\ output' = <<>>
        /\ posted' = <<>>
        /\ lastOp' = "ws_kb_processing"
        /\ UNCHANGED <<ap, now, nextSample, apGhosts, timers, toMain, isTalking,
                       seenTalking, stoppedUpTo>>

\* wsRef.current.onmessage, chunk.event === 'knowledge_base'. On the failure
\* paths the processing entries are removed from the transcript and an error
\* entry is added (n entries are left); on the success path the handler
\* leaves the transcript alone and sets a timer of 500 ms that shows the
\* result.
WsKnowledgeBase ==
    \E payload \in KbPayloads, n \in 0..MaxMessages :
        /\ Len(toWorklet) < MaxInFlight
        /\ IF payload \in {"object", "results"}
           THEN n = messages
           ELSE n >= 1 /\ n <= messages + 1
        /\ toWorklet' = toWorklet \o knowledgeBasePosts(payload)
        /\ messages' = n
        /\ output' = <<>>
        /\ posted' = <<>>
        /\ lastOp' = "ws_knowledge_base"
        /\ UNCHANGED <<ap, now, nextSample, apGhosts, timers, toMain, isTalking,
                       seenTalking, stoppedUpTo>>

\* AudioProcessor.port.onmessage for the oldest message in flight, of type
\* data, kb_mode_on or kb_mode_off
KbPortDelivers ==
    /\ toWorklet # <<>>
    /\ LET m == Head(toWorklet)
       IN  /\ toWorklet' = Tail(toWorklet)
           /\ lastOp' = m.type
           /\ ap' = IF m.type = "data" THEN OnData(ap, m.audio, now)
                    ELSE IF m.type = "kb_mode_on" THEN OnKbModeOn(ap)
                    ELSE OnKbModeOff(ap)
    /\ output' = <<>>
    /\ posted' = <<>>
    /\ UNCHANGED <<now, nextSample, apGhosts, timers, toMain, isTalking, seenTalking,
                   stoppedUpTo, messages>>

KbNext ==
    \/ WsKbProcessing
    \/ WsKnowledgeBase
    \/ WsMedia
    \/ TimerFires
    \/ KbPortDelivers

KbSpec == RouterInit /\ [][KbNext]_vars

(***************************************************************************)
(* Content: the two directions of the audio. Incoming media frames go from *)
(* the socket through the timers and the port into the buffer; captured    *)
(* blocks, numbered 1, 2, 3, ... in capture order, go out on the socket.   *)
(***************************************************************************)
\* processor.onaudioprocess of each of the running capture pipelines for one
\* captured block: the block is encoded and sent if wsRef.current is OPEN
onaudioprocess(c, pipelines, open) ==
    [c EXCEPT !.n = @ + 1,
              !.sent = IF open
                       THEN @ \o [i \in 1..pipelines |-> c.n + 1]
                       ELSE @]

Capture ==
    \E pipelines \in 1..MaxMics, open \in BOOLEAN :
        /\ capture.n < MaxCaptured
        /\ capture' = onaudioprocess(capture, pipelines, open)
        /\ output' = <<>>
        /\ posted' = <<>>
        /\ lastOp' = "capture"
        /\ UNCHANGED <<ap, now, nextSample, clean, pulled, clearRun, episodeResets,
                       session, wsSent, codec, shadow, loader, routerVars>>

OrderNext ==
    \/ WsMedia
    \/ TimerFires
    \/ PortDelivers
    \/ Capture

OrderSpec == RouterInit /\ [][OrderNext]_vars

\* The dispatch of the incoming messages other than stop (media, text,
\* messages that fail to parse or to decode, pong and unrecognized messages)
\* up to their delivery to the processor, between two pulls.
DispatchNext ==
    \/ WsMedia
    \/ WsMalformed
    \/ WsText
    \/ WsIgnored
    \/ TimerFires
    \/ PortDelivers

DispatchSpec == RouterInit /\ [][DispatchNext]_vars

(***************************************************************************)
(* Content: the session.                                                   *)
(*                                                                         *)
(* Every run of the effect with isEngaged = true creates a closure with    *)
(* its own heartbeatInterval, reconnectTimeout and reconnectAttempts and   *)
(* its own chain of sockets (connect, close, timer, connect); the handlers *)
(* of a socket keep running in their closure after the cleanup of the      *)
(* effect. A state update (setEngaged) is taken together with the          *)
(* re-render and the effect cleanup / effect run it causes.                *)
(***************************************************************************)
\* clearing that keeps the handle as a running one
clearHeartbeatKeepsHandle(c) ==
    IF c.heartbeatInterval
    THEN [c EXCEPT !.intervals = @ - 1]
    ELSE c

\* if (heartbeatInterval) clearInterval(heartbeatInterval) in the closure c
clearHeartbeat(c) ==
    IF c.heartbeatInterval
    THEN [c EXCEPT !.heartbeatInterval = FALSE, !.intervals = @ - 1]
    ELSE c

\* cleanup() of the closure e: its heartbeat interval and its reconnect
\* timeout are cleared, wsRef.current is closed if it is OPEN, the audio
\* context is closed (which ends the capture pipelines running on it).
cleanup(S, e) ==
    LET c == S.effects[e]
        c1 == [clearHeartbeat(c) EXCEPT !.reconnectTimeout = NoTimer]
        eff1 == [S.effects EXCEPT ![e] = c1]
        eff2 == IF S.wsRef # 0 /\ eff1[S.wsRef].ws = "OPEN"
                THEN [eff1 EXCEPT ![S.wsRef].ws = "CLOSING"]
                ELSE eff1
    IN  [S EXCEPT !.effects = eff2,
                  !.audioCtx = IF @ = "running" THEN "closed" ELSE @,
                  !.mics = 0]

\* setEngaged(v) with the effect cleanup and effect run that follow
setEngaged(S, v) ==
    IF S.isEngaged = v
    THEN S
    ELSE IF v
         THEN [S EXCEPT !.isEngaged = TRUE,
                        !.nEffects = @ + 1,
                        !.effects[S.nEffects + 1] = [NewClosure EXCEPT !.phase = "initAudio"]]
         ELSE [cleanup(S, S.nEffects) EXCEPT !.isEngaged = FALSE]

\* a new closure can still be made
CanEngage(S) == S.isEngaged \/ S.nEffects < MaxEffects

\* connect() in the closure e
connect(S, e) ==
    [S EXCEPT !.effects[e].ws = "CONNECTING",
              !.effects[e].configs = 0,
              !.wsRef = e]

\* the test of onclose with <= in place of <
CanReconnectOnceMore(c) == c.engaged /\ c.reconnectAttempts <= maxReconnectAttempts

\* onclose: isEngaged && reconnectAttempts < maxReconnectAttempts
CanReconnect(c) == c.engaged /\ c.reconnectAttempts < maxReconnectAttempts

\* onclose: reconnectAttempts >= maxReconnectAttempts
Exhausted(c) == c.reconnectAttempts >= maxReconnectAttempts

\* wsRef.current.onclose in the closure e (setTalking(false) is done by the
\* action)
onclose(S0, e) ==
    LET S == [S0 EXCEPT !.effects[e] = clearHeartbeat(@)]
        c == S.effects[e]
    IN  IF CanReconnect(c)
        THEN [S EXCEPT !.effects[e].reconnectAttempts = @ + 1,
                       !.effects[e].reconnectTimeout = reconnectInterval]
        ELSE IF Exhausted(c)
             THEN setEngaged(S, FALSE)
             ELSE S

SessionInit ==
    /\ ap = NewAudioProcessor(0)
    /\ now = 0
    /\ nextSample = 1
    /\ output = <<>>
    /\ posted = <<>>
    /\ lastOp = "new"
    /\ clean = TRUE
    /\ pulled = 0
    /\ clearRun = 0
    /\ episodeResets = 0
    /\ timers = <<>>
    /\ toWorklet = <<>>
    /\ toMain = <<>>
    /\ isTalking = FALSE
    /\ seenTalking = FALSE
    /\ stoppedUpTo = 0
    /\ messages = 0
    /\ session = NewSession
    /\ wsSent = <<>>
    /\ codec = NewCodec(0)
    /\ shadow = NewShadow
    /\ capture = NewCapture
    /\ loader = NewLoader

notSession == <<ap, now, nextSample, output, posted, lastOp, clean, pulled, clearRun,
                episodeResets, timers, toWorklet, toMain, seenTalking, stoppedUpTo,
                messages, codec, shadow, capture, loader>>

\* Nav.Link onClick: setEngaged(!isEngaged); if (isEngaged) setTalking(false)
ClickEngage ==
    /\ CanEngage(session)
    /\ session' = [setEngaged(session, ~session.isEngaged) EXCEPT
                       !.userOff = session.isEngaged]
    /\ isTalking' = IF session.isEngaged THEN FALSE ELSE isTalking
    /\ wsSent' = <<>>
    /\ UNCHANGED notSession

\* initAudio of the closure e resumes after await initAudioWorklet() and calls
\* setupWebSocketConnection(); ok: the worklet node was created. The audio
\* context is a new one, with no capture pipeline.
InitAudioDone ==
    \E e \in Effects, ok \in BOOLEAN :
        /\ session.effects[e].phase = "initAudio"
        /\ session' = connect([session EXCEPT
                                   !.audioCtx = "running",
                                   !.mics = 0,
                                   !.workletNode = @ \/ ok,
                                   !.effects[e].phase = "setup",
                                   !.effects[e].reconnectAttempts = 0], e)
        /\ wsSent' = <<>>
        /\ UNCHANGED <<notSession, isTalking>>

\* onopen of a socket of the closure e, up to await initMicrophone()
onopen(S, e) ==
    [S EXCEPT !.effects[e].ws = "OPEN",
              !.effects[e].reconnectAttempts = 0,
              !.effects[e].made = 0]

\* the socket of the closure e opens and getUserMedia does not settle: onopen
\* resets reconnectAttempts and stays in await initMicrophone() (the runs in
\* which it resumes are those of OnOpenStarts and OnOpenResumes)
SocketOpens ==
    \E e \in Effects :
        /\ session.effects[e].ws = "CONNECTING"
        /\ session' = onopen(session, e)
        /\ wsSent' = <<>>
        /\ UNCHANGED <<notSession, isTalking>>

\* the socket of the closure e closes (by the peer, by a failed connection or
\* after close()): onclose
SocketCloses ==
    \E e \in Effects :
        /\ session.effects[e].ws \in {"CONNECTING", "OPEN", "CLOSING"}
        /\ session' = onclose([session EXCEPT !.effects[e].ws = "CLOSED"], e)
        /\ isTalking' = FALSE
        /\ wsSent' = <<>>
        /\ UNCHANGED notSession

\* the reconnect timer of the closure e fires: connect()
ReconnectFires ==
    \E e \in Effects :
        /\ session.effects[e].reconnectTimeout = 0
        /\ session' = connect([session EXCEPT
                                   !.effects[e].reconnectTimeout = NoTimer,
                                   !.effects[e].made = @ + 1], e)
        /\ wsSent' = <<>>
        /\ UNCHANGED <<notSession, isTalking>>

\* the handler of the worklet node receives bufferReset: its closure has
\* isEngaged = true, so setEngaged(false) and setEngaged(true) 1 s later
BufferReset ==
    /\ session.workletNode
    /\ session.audioCtx = "running"
    /\ session.reengage = NoTimer
    /\ session' = [setEngaged(session, FALSE) EXCEPT !.reengage = reengageDelay]
    /\ wsSent' = <<>>
    /\ UNCHANGED <<notSession, isTalking>>

\* the timer of the bufferReset handler fires: setEngaged(true)
ReengageFires ==
    /\ session.reengage = 0
    /\ CanEngage(session)
    /\ session' = [setEngaged(session, TRUE) EXCEPT !.reengage = NoTimer]
    /\ wsSent' = <<>>
    /\ UNCHANGED <<notSession, isTalking>>

Elapse(t) == IF t > 0 THEN (IF t > TickMs THEN t - TickMs ELSE 0) ELSE t

\* TickMs pass: pending timers get closer to firing
SessionTick ==
    /\ \/ session.reengage > 0
       \/ \E e \in Effects : session.effects[e].reconnectTimeout > 0
    /\ session' = [session EXCEPT
                      !.reengage = Elapse(@),
                      !.effects = [e \in Effects |->
                          [@[e] EXCEPT !.reconnectTimeout = Elapse(@)]]]
    /\ wsSent' = <<>>
    /\ UNCHANGED <<notSession, isTalking>>

SessionNext ==
    \/ ClickEngage
    \/ InitAudioDone
    \/ SocketOpens
    \/ SocketCloses
    \/ ReconnectFires
    \/ BufferReset
    \/ ReengageFires
    \/ SessionTick

SessionSpec == SessionInit /\ [][SessionNext]_vars

(***************************************************************************)
(* Content: initAudioWorklet step by step. SessionSpec takes the call as   *)
(* one step (InitAudioDone); here the audio context is made first, then    *)
(* addModule is called until it succeeds or the retries run out, with a    *)
(* delay after each failed call, and initAudio goes on to                  *)
(* setupWebSocketConnection.                                               *)
(***************************************************************************)
\* the test of the retry loop with > in place of >=
RetriesExhaustedLater(r) == r > maxRetries

\* initAudioWorklet: retries >= maxRetries
RetriesExhausted(r) == r >= maxRetries

\* the start of initAudioWorklet in the closure e: a context that is not
\* closed is closed (its capture pipelines end), a new one is made and
\* resumed
LoaderBegins ==
    \E e \in Effects :
        /\ session.effects[e].phase = "initAudio"
        /\ loader[e].step = "begin"
        /\ session' = [session EXCEPT !.audioCtx = "running", !.mics = 0]
        /\ loader' = [loader EXCEPT ![e].step = "addModule"]
        /\ wsSent' = <<>>
        /\ UNCHANGED <<ap, now, nextSample, output, posted, lastOp, clean, pulled,
                       clearRun, episodeResets, routerVars, codec, shadow, capture>>

\* initAudioWorklet returns in the closure e and initAudio calls
\* setupWebSocketConnection(). node: the worklet node was created and
\* connected. After a failure the catch block makes a new context if there
\* is none or the one there is closed, and keeps the one there otherwise.
initAudioReturns(S, e, node) ==
    LET kept == S.audioCtx = "running"
    IN  connect([S EXCEPT !.audioCtx = "running",
                          !.mics = IF kept THEN @ ELSE 0,
                          !.workletNode = @ \/ (node /\ kept),
                          !.effects[e].phase = "setup",
                          !.effects[e].reconnectAttempts = 0], e)

\* one call of audioWorklet.addModule in the closure e, the first one or the
\* one after the delay; ok: the promise resolves
AddModule ==
    \E e \in Effects, ok \in BOOLEAN :
        /\ session.effects[e].phase = "initAudio"
        /\ \/ loader[e].step = "addModule"
           \/ loader[e].step = "waiting" /\ loader[e].wait = 0
        /\ LET l == [loader[e] EXCEPT !.calls = @ + 1, !.wait = NoTimer]
               r == l.retries + 1
           IN  IF ok
               THEN /\ loader' = [loader EXCEPT ![e] = [l EXCEPT !.step = "done"]]
                    /\ session' = initAudioReturns(session, e, TRUE)
               ELSE IF RetriesExhausted(r)
               THEN /\ loader' = [loader EXCEPT
                                      ![e] = [l EXCEPT !.step = "done", !.retries = r]]
                    /\ session' = initAudioReturns(session, e, FALSE)
               ELSE /\ loader' = [loader EXCEPT
                                      ![e] = [l EXCEPT !.step = "waiting", !.retries = r,
                                                       !.wait = retryDelay]]
                    /\ session' = session
        /\ wsSent' = <<>>
        /\ UNCHANGED <<ap, now, nextSample, output, posted, lastOp, clean, pulled,
                       clearRun, episodeResets, routerVars, codec, shadow, capture>>

\* TickMs pass: the delays of the retry loops get closer to their end
LoaderTick ==
    /\ \E e \in Effects : loader[e].wait > 0
    /\ loader' = [e \in Effects |-> [loader[e] EXCEPT !.wait = Elapse(@)]]
    /\ wsSent' = <<>>
    /\ UNCHANGED <<ap, now, nextSample, output, posted, lastOp, clean, pulled,
                   clearRun, episodeResets, routerVars, codec, shadow, capture, session>>

WorkletNext ==
    \/ ClickEngage
    \/ LoaderBegins
    \/ AddModule
    \/ LoaderTick
    \/ SocketOpens
    \/ SocketCloses

WorkletSpec == SessionInit /\ [][WorkletNext]_vars

(***************************************************************************)
(* Content: the session with the microphone, the config message and the    *)
(* heartbeat. SessionSpec above has the runs in which getUserMedia never   *)
(* settles; here the onopen handlers resume, capture pipelines deliver     *)
(* blocks and heartbeat intervals fire.                                    *)
(***************************************************************************)
\* wsRef.current?.readyState === WebSocket.OPEN
CurrentOpen(S) == S.wsRef # 0 /\ S.effects[S.wsRef].ws = "OPEN"

\* a message sent on wsRef.current; to is a ghost: the closure that made
\* the socket
WsMsg(S, type) == [type |-> type, to |-> S.wsRef]

\* initMicrophone(); ok: getUserMedia resolved and the nodes were created.
\* A pipeline on a closed audio context delivers no block.
initMicrophone(S, ok) ==
    IF ok /\ S.audioCtx = "running"
    THEN [S EXCEPT !.mics = Min(@ + 1, MaxMics)]
    ELSE S

\* the socket of the closure e opens: onopen resets reconnectAttempts and
\* awaits initMicrophone(), to be resumed by OnOpenResumes
OnOpenStarts ==
    \E e \in Effects :
        /\ session.effects[e].ws = "CONNECTING"
        /\ session.effects[e].pending < MaxPending
        /\ session' = [onopen(session, e) EXCEPT !.effects[e].pending = @ + 1]
        /\ wsSent' = <<>>
        /\ UNCHANGED <<notSession, isTalking>>

\* onopen of a socket of the closure e resumes after await initMicrophone():
\* the config message is sent if wsRef.current is OPEN, then the heartbeat
\* interval is set.
OnOpenResumes ==
    \E e \in Effects, ok \in BOOLEAN :
        /\ session.effects[e].pending > 0
        /\ session.effects[e].intervals < MaxIntervals
        /\ LET S1 == initMicrophone(session, ok)
               S2 == IF CurrentOpen(S1)
                     THEN [S1 EXCEPT !.effects[S1.wsRef].configs = Min(@ + 1, MaxConfigs)]
                     ELSE S1
           IN  /\ session' = [S2 EXCEPT !.effects[e].pending = @ - 1,
                                        !.effects[e].heartbeatInterval = TRUE,
                                        !.effects[e].intervals = @ + 1]
               /\ wsSent' = IF CurrentOpen(S1) THEN <<WsMsg(S1, "config")>> ELSE <<>>
        /\ UNCHANGED <<notSession, isTalking>>

\* a heartbeat interval of the closure e fires: ping if wsRef.current is OPEN
HeartbeatFires ==
    \E e \in Effects :
        /\ session.effects[e].intervals > 0
        /\ wsSent' = IF CurrentOpen(session) THEN <<WsMsg(session, "ping")>> ELSE <<>>
        /\ UNCHANGED <<notSession, isTalking, session>>

\* onaudioprocess of every running capture pipeline: the block is sent if
\* wsRef.current is OPEN
AudioCaptured ==
    /\ session.mics > 0
    /\ wsSent' = IF CurrentOpen(session)
                 THEN [i \in 1..session.mics |-> WsMsg(session, "audio")]
                 ELSE <<>>
    /\ UNCHANGED <<notSession, isTalking, session>>

LinkNext ==
    \/ ClickEngage
    \/ InitAudioDone
    \/ OnOpenStarts
    \/ OnOpenResumes
    \/ SocketCloses
    \/ ReconnectFires
    \/ BufferReset
    \/ ReengageFires
    \/ SessionTick
    \/ HeartbeatFires
    \/ AudioCaptured

LinkSpec == SessionInit /\ [][LinkNext]_vars

(***************************************************************************)
(* Properties of the AudioProcessor, checked under Spec.                   *)
(***************************************************************************)
Unread(p) == Slice(p.buffer, p.position)

C3_OneResetPerEpisode ==
    [][ /\ (lastOp' = "process" /\ Starved(ap) /\ TimedOut(ap, now)
              /\ ap.recoveryAttempts = maxRecoveryAttempts)
           => (ap'.buffer = <<>> /\ ap'.position = 0
                 /\ Count(posted', "bufferReset") = 1)
        /\ episodeResets' <= 1 ]_vars

\* C4: a starved pull made after the timeout outputs silence and posts
\* exactly one needData, whatever needDataRequested was; a pull posts no
\* needData while a request is outstanding.
C4_ExactlyOneNeedData ==
    [][ lastOp' = "process" =>
          /\ (Starved(ap) /\ TimedOut(ap, now)) =>
                 (output' = Zeros /\ Count(posted', "needData") = 1)
          /\ (ap.needDataRequested /\ ~(Starved(ap) /\ TimedOut(ap, now))) =>
                 Count(posted', "needData") = 0 ]_vars

\* C6: after a clear the buffer is empty and the cursor is zero, and a
\* second consecutive clear changes no field of the processor.
C6_ClearIdempotent ==
    [][ lastOp' = "clear" =>
          /\ ap'.buffer = <<>>
          /\ ap'.position = 0
          /\ (lastOp = "clear" => ap' = ap) ]_vars

\* two consecutive clears have been handled
C6_Witness == clearRun = 2 /\ lastOp = "clear"

\* C20: a data message appends its frame to the buffer and leaves the
\* cursor, sets needDataRequested to false, recoveryAttempts to 0 and
\* lastDataTime to the current time.
C20_AppendEffect ==
    [][ lastOp' = "data" =>
          /\ \E k \in 1..MaxFrame : ap'.buffer = ap.buffer \o Frame(nextSample, k)
          /\ Len(ap'.buffer) = Len(ap.buffer) + (nextSample' - nextSample)
          /\ ap'.position = ap.position
          /\ ~ap'.needDataRequested
          /\ ap'.recoveryAttempts = 0
          /\ ap'.lastDataTime = now ]_vars

\* a frame appended behind unread samples, after the clock has advanced,
\* with a request outstanding and recovery attempts recorded before it
C20_Witness ==
    /\ lastOp = "data"
    /\ ap.position > 0
    /\ Len(ap.buffer) > ap.position + MaxFrame
    /\ ap.lastDataTime = MaxTime
    /\ clean

\* a step of the processor that posts bufferReset
HardReset == Count(posted', "bufferReset") > 0

\* C21: needDataRequested goes from true to false only in a data step or in
\* a step that posts bufferReset, and a pull posts needData only when no
\* request is outstanding.
C21_FlagClearedOnlyByAppendOrReset ==
    [][ /\ (ap.needDataRequested /\ ~ap'.needDataRequested) =>
               (lastOp' = "data" \/ HardReset)
        /\ (lastOp' = "process" /\ ap.needDataRequested) =>
               Count(posted', "needData") = 0 ]_vars

\* C25: in every step that posts bufferReset the processor is left with an
\* empty buffer, position 0, both counters 0 and no request outstanding.
C25_HardResetZeroesAll ==
    [][ HardReset =>
            /\ ap'.buffer = <<>>
            /\ ap'.position = 0
            /\ ap'.recoveryAttempts = 0
            /\ ap'.silenceFillCount = 0
            /\ ~ap'.needDataRequested ]_vars

\* C26: after a pull while playing silenceFillCount is at most
\* maxSilenceFills, because a starved pull made with the count at the
\* maximum posts bufferReset whatever recoveryAttempts is.
C26_SilenceFillsBounded ==
    [][ (lastOp' = "process" /\ ap.isPlaying) =>
            /\ ap'.silenceFillCount <= maxSilenceFills
            /\ (Starved(ap) /\ ap.silenceFillCount >= maxSilenceFills) => HardReset ]_vars

\* C27: in every state the starvation timeout and the low-watermark are
\* those of the current mode.
C27_TimeoutAndThresholdFollowMode ==
    /\ ap.starvationTimeout =
           IF ap.isKnowledgeBaseQuery THEN kbStarvationTimeout ELSE normalStarvationTimeout
    /\ Threshold(ap) =
           IF ap.isKnowledgeBaseQuery THEN bufferThreshold * 2 ELSE bufferThreshold

\* C28: kb_mode_on and kb_mode_off change no field of the processor other
\* than isKnowledgeBaseQuery, starvationTimeout and adaptiveBufferMode, and
\* post nothing.
C28_ModeTogglesFrame ==
    [][ lastOp' \in {"kb_mode_on", "kb_mode_off"} =>
            /\ ap' = [ap EXCEPT !.isKnowledgeBaseQuery = ap'.isKnowledgeBaseQuery,
                                !.starvationTimeout = ap'.starvationTimeout,
                                !.adaptiveBufferMode = ap'.adaptiveBufferMode]
            /\ posted' = <<>> ]_vars

\* the mode was left with samples consumed, a request outstanding and both
\* counters above zero
C28_Witness ==
    /\ lastOp = "kb_mode_off"
    /\ ~ap.isKnowledgeBaseQuery
    /\ ap.position > 0
    /\ ap.needDataRequested
    /\ ap.recoveryAttempts > 0
    /\ ap.silenceFillCount > 0
    /\ ap.lastDataTime > 0

\* C34: a pull made while the processor is stopped outputs zeros, posts
\* nothing and leaves every field as it was; a stop posts exactly one
\* stopped; isPlaying goes from false to true only in a data step.
C34_StoppedPullsAreInert ==
    [][ /\ (lastOp' = "process" /\ ~ap.isPlaying) =>
               (output' = Zeros /\ posted' = <<>> /\ ap' = ap)
        /\ (lastOp' = "stop") => (posted' = <<"stopped">> /\ ~ap'.isPlaying)
        /\ (~ap.isPlaying /\ ap'.isPlaying) => lastOp' = "data" ]_vars

\* a pull was made on a stopped processor that had been through starvation
C34_Witness ==
    /\ lastOp = "process"
    /\ ~ap.isPlaying
    /\ output = Zeros
    /\ posted = <<>>
    /\ ap.recoveryAttempts > 0

\* C35: recoveryAttempts stays within 0..maxRecoveryAttempts, and a step
\* increases it only when it is a pull that lacks BlockSize unread samples
\* with the time since the last data above starvationTimeout.
C35_AttemptsBoundedAndOnlyOnTimeout ==
    [][ /\ ap'.recoveryAttempts \in 0..maxRecoveryAttempts
        /\ (ap'.recoveryAttempts > ap.recoveryAttempts) =>
               /\ lastOp' = "process"
               /\ Starved(ap)
               /\ TimedOut(ap, now)
               /\ ap'.recoveryAttempts = ap.recoveryAttempts + 1 ]_vars

\* the last attempt allowed has been made
C35_Witness ==
    /\ lastOp = "process"
    /\ ap.recoveryAttempts = maxRecoveryAttempts
    /\ Count(posted, "bufferReset") = 0

\* C36: every silence-filled pull made while playing that is not a hard
\* reset increases silenceFillCount by exactly one.
C36_SilenceFillsCountedOnce ==
    [][ (lastOp' = "process" /\ Starved(ap) /\ ~HardReset) =>
            ap'.silenceFillCount = ap.silenceFillCount + 1 ]_vars

C7_CursorInBounds == 0 <= ap.position /\ ap.position <= Len(ap.buffer)

\* the cursor has reached the end of a non-empty buffer
C7_Witness == ap.position > 0 /\ ap.position = Len(ap.buffer)

\* C8: a pull while playing either copies exactly the next BlockSize unread
\* samples and advances the cursor by BlockSize (the unread part loses
\* exactly its first BlockSize samples), or outputs only zeros and moves the
\* cursor over no sample (buffer and cursor are untouched, or the pull is a
\* hard reset that posts bufferReset).
C8_PullAllOrNothing ==
    [][ (lastOp' = "process" /\ ap.isPlaying) =>
          IF Remaining(ap) >= BlockSize
          THEN /\ output' = SubSeq(ap.buffer, ap.position + 1, ap.position + BlockSize)
               /\ Unread(ap') = Slice(Unread(ap), BlockSize)
               /\ \/ ap'.position = ap.position + BlockSize /\ ap'.buffer = ap.buffer
                  \/ ap'.position = 0 /\ ap'.buffer = Unread(ap')
          ELSE /\ output' = Zeros
               /\ \/ ap'.buffer = ap.buffer /\ ap'.position = ap.position
                  \/ /\ Count(posted', "bufferReset") = 1
                     /\ ap'.buffer = <<>>
                     /\ ap'.position = 0 ]_vars

\* two blocks appended, the first one pulled, the second one still unread
C8_Witness ==
    /\ lastOp = "process"
    /\ output = Frame(1, BlockSize)
    /\ Unread(ap) = Frame(BlockSize + 1, BlockSize)

\* C9: in extended mode the first pull made after the timeout has elapsed
\* records exactly one recovery attempt and is no hard reset, however many
\* silence-filled pulls were made while waiting.
C9_ExtendedModeNoReset ==
    [][ (/\ lastOp' = "process"
         /\ ap.isKnowledgeBaseQuery
         /\ Starved(ap) /\ TimedOut(ap, now)
         /\ ap.recoveryAttempts = 0 /\ episodeResets = 0)
        => (/\ ap'.recoveryAttempts = 1
            /\ Count(posted', "bufferReset") = 0
            /\ ap'.buffer = ap.buffer) ]_vars

(***************************************************************************)
(* Properties of the message routing, checked under RouterSpec.            *)
(***************************************************************************)
\* C2: once the processor has handled a `stop`, the buffer is empty and the
\* talking indicator is off; no later pull outputs a sample of a media
\* message that arrived on the socket before that stop, and the deferred
\* hand-off of such a message does not switch the talking indicator on.
C2_StopDiscardsEarlierMedia ==
    [][ /\ lastOp' = "stop" => (ap'.buffer = <<>> /\ ~isTalking')
        /\ lastOp' = "process" =>
               \A i \in 1..Len(output') : output'[i] = 0 \/ output'[i] > stoppedUpTo'
        /\ (lastOp' = "timer" /\ Head(timers)[1] <= stoppedUpTo) => ~isTalking' ]_vars

\* C17: handling a malformed message changes neither the processor, the
\* talking indicator, the transcript nor the session, and what it posts to
\* the worklet leaves the buffer, the cursor and the playback mode of the
\* processor as they are.
C17_MalformedDropped ==
    [][ /\ lastOp' = "ws_malformed" =>
               /\ ap' = ap
               /\ isTalking' = isTalking
               /\ messages' = messages
               /\ session' = session
        /\ lastOp' = "clear" =>
               /\ ap'.buffer = ap.buffer
               /\ ap'.position = ap.position
               /\ ap'.isPlaying = ap.isPlaying
               /\ ap'.isKnowledgeBaseQuery = ap.isKnowledgeBaseQuery ]_vars

\* C18: handling a message whose tag matches no branch posts nothing to the
\* worklet, sets no timer and changes neither the processor, the talking
\* indicator, the transcript nor the session.
C18_UnrecognizedIgnored ==
    [][ lastOp' = "ws_ignored" =>
          /\ toWorklet' = toWorklet
          /\ timers' = timers
          /\ toMain' = toMain
          /\ ap' = ap
          /\ isTalking' = isTalking
          /\ messages' = messages
          /\ session' = session ]_vars

\* an unrecognized message handled while talking, with samples buffered and
\* an entry in the transcript
C18_Witness ==
    /\ lastOp = "ws_ignored"
    /\ isTalking
    /\ Remaining(ap) > 0
    /\ messages > 0

(***************************************************************************)
(* Properties of the session, checked under SessionSpec.                   *)
(***************************************************************************)
\* C5: in every closure at most maxReconnectAttempts reconnections are made
\* without an open in between, each by the timer armed with
\* reconnectInterval by the preceding close and run down; the close that
\* follows the last of them arms no timer and turns engagement off.
C5_BoundedReconnect ==
    [][ \A e \in Effects :
          LET c == session.effects[e]
              d == session'.effects[e]
          IN  /\ d.made <= maxReconnectAttempts
              /\ d.made = c.made + 1 => c.reconnectTimeout = 0
              /\ (c.ws # "CLOSED" /\ d.ws = "CLOSED") =>
                     IF c.made < maxReconnectAttempts
                     THEN /\ d.reconnectTimeout = reconnectInterval
                          /\ session'.isEngaged = session.isEngaged
                     ELSE /\ d.reconnectTimeout = NoTimer
                          /\ ~session'.isEngaged ]_vars

\* the socket of the fifth reconnection has closed while engaged
C5_Witness ==
    \E e \in Effects :
        /\ e = session.nEffects
        /\ session.effects[e].made = maxReconnectAttempts
        /\ session.effects[e].ws = "CLOSED"
        /\ session.effects[e].reconnectTimeout = NoTimer
        /\ ~session.isEngaged
        /\ \A f \in Effects \ {e} : session.effects[f].phase = "unused"

\* C10: at most one socket created by the session is connecting or open.
C10_AtMostOneSocket ==
    Cardinality({e \in Effects : session.effects[e].ws \in {"CONNECTING", "OPEN"}}) <= 1

\* C12: after the user has clicked Disengage and until the next click, no
\* step creates a socket, opens a socket or switches engagement on.
C12_TerminatedUntilEngage ==
    [][ (session.userOff /\ session'.userOff) =>
          /\ ~session'.isEngaged
          /\ \A e \in Effects :
                 /\ session'.effects[e].ws = "CONNECTING" =>
                        session.effects[e].ws = "CONNECTING"
                 /\ session'.effects[e].ws = "OPEN" => session.effects[e].ws = "OPEN" ]_vars

(***************************************************************************)
(* Properties of the session with microphone, config and heartbeat,        *)
(* checked under LinkSpec.                                                 *)
(***************************************************************************)
\* the session is Active: engaged, wsRef.current open, config sent on it
Active(S) == S.isEngaged /\ CurrentOpen(S) /\ S.effects[S.wsRef].configs >= 1

Sent(type) == {i \in 1..Len(wsSent) : wsSent[i].type = type}

C11_OneConfigBeforeAudio ==
    [][ /\ \A e \in Effects : session'.effects[e].configs <= 1
        /\ \A e \in Effects :
               (/\ session'.effects[e].pending < session.effects[e].pending
                /\ session.wsRef = e
                /\ session.effects[e].ws = "OPEN")
               => session'.effects[e].configs = 1
        /\ \A i \in 1..Len(wsSent') :
               wsSent'[i].type = "audio" =>
                   session'.effects[wsSent'[i].to].configs >= 1 ]_vars

\* C13: while disengaged no heartbeat interval and no reconnect timeout is
\* armed, and every socket made is closing or closed.
C13_DisengageCancelsAll ==
    ~session.isEngaged =>
        \A e \in Effects :
            /\ session.effects[e].intervals = 0
            /\ session.effects[e].reconnectTimeout = NoTimer
            /\ session.effects[e].ws \in {"none", "CLOSING", "CLOSED"}

\* C14: a ping is sent only while the session is Active.
C14_PingOnlyWhileActive == Sent("ping") # {} => Active(session)

\* C15: at most one heartbeat interval is running, and none while
\* wsRef.current is not open.
C15_OneHeartbeatWhileOpen ==
    LET running == {e \in Effects : session.effects[e].intervals > 0}
    IN  /\ Cardinality(running) <= 1
        /\ \A e \in running : session.effects[e].intervals = 1
        /\ running # {} => CurrentOpen(session)

\* C16: reconnectAttempts of a closure goes back to zero only in a step that
\* sends the config message on its socket or follows that send; the step in
\* which the socket opens leaves the counter as it is.
C16_ResetOnlyAfterConfig ==
    [][ \A e \in Effects :
          LET c == session.effects[e]
              d == session'.effects[e]
          IN  /\ (c.reconnectAttempts > 0 /\ d.reconnectAttempts = 0) => d.configs >= 1
              /\ (c.ws = "CONNECTING" /\ d.ws = "OPEN") =>
                     d.reconnectAttempts = c.reconnectAttempts ]_vars

\* C19: a captured block is sent only while wsRef.current is open and the
\* config message has been sent on it; otherwise the step sends nothing and
\* changes nothing.
C19_AudioOnlyWhenConfigured ==
    [][ /\ Sent("audio")' # {} =>
               (CurrentOpen(session') /\ session'.effects[session'.wsRef].configs >= 1)
        /\ (/\ session.mics > 0
            /\ session' = session
            /\ ~(CurrentOpen(session) /\ session.effects[session.wsRef].configs >= 1))
           => Sent("audio")' = {} ]_vars

\* C37: at most one capture pipeline is running, and one captured block
\* puts at most one audio message on the socket.
C37_OneCapturePipeline ==
    /\ session.mics <= 1
    /\ Cardinality(Sent("audio")) <= 1

(***************************************************************************)
(* Claims about initAudioWorklet (WorkletSpec).                            *)
(***************************************************************************)
\* C33: a run of initAudioWorklet calls addModule at most maxRetries times,
\* a call after a failed one is made only when the delay of retryDelay ms
\* has run out, and the step in which the last allowed call fails leaves a
\* running audio context and the socket of the closure connecting.
C33_BoundedRetriesThenConnect ==
    [][ \A e \in Effects :
            /\ loader'[e].calls <= maxRetries
            /\ (loader'[e].calls > loader[e].calls /\ loader[e].calls > 0) =>
                   (loader[e].step = "waiting" /\ loader[e].wait = 0)
            /\ (loader[e].step = "addModule" /\ loader'[e].step = "waiting") =>
                   loader'[e].wait = retryDelay
            /\ (loader[e].retries < maxRetries /\ loader'[e].retries >= maxRetries) =>
                   /\ loader'[e].step = "done"
                   /\ session'.effects[e].phase = "setup"
                   /\ session'.effects[e].ws = "CONNECTING"
                   /\ session'.wsRef = e
                   /\ session'.audioCtx = "running" ]_vars

\* every call of addModule has failed and the socket is being opened with no
\* worklet node
C33_Witness ==
    \E e \in Effects :
        /\ loader[e].step = "done"
        /\ loader[e].retries = maxRetries
        /\ loader[e].calls = maxRetries
        /\ session.effects[e].ws = "CONNECTING"
        /\ session.audioCtx = "running"
        /\ ~session.workletNode

(***************************************************************************)
(* Claims about the long-task messages (KbSpec).                           *)
(***************************************************************************)
\* C32: the handling of every kb_processing message posts kb_mode_on to the
\* processor and that of every knowledge_base message posts kb_mode_off,
\* whatever the payload; the processor is in the mode of the message it
\* handled last.
C32_ModeFollowsLongTaskMessages ==
    [][ /\ lastOp' = "ws_kb_processing" =>
               (/\ Len(toWorklet') = Len(toWorklet) + 1
                /\ toWorklet'[Len(toWorklet')].type = "kb_mode_on")
        /\ lastOp' = "ws_knowledge_base" =>
               (/\ Len(toWorklet') = Len(toWorklet) + 1
                /\ toWorklet'[Len(toWorklet')].type = "kb_mode_off")
        /\ lastOp' = "kb_mode_on" =>
               (ap'.isKnowledgeBaseQuery /\ ap'.starvationTimeout = kbStarvationTimeout)
        /\ lastOp' = "kb_mode_off" =>
               (~ap'.isKnowledgeBaseQuery /\ ap'.starvationTimeout = normalStarvationTimeout)
      ]_vars

(***************************************************************************)
(* Claims about the order of the audio (OrderSpec).                        *)
(***************************************************************************)
\* the sample numbers of the port messages q, in order
RECURSIVE Samples(_)
Samples(q) == IF q = <<>> THEN <<>> ELSE Head(q).audio \o Samples(Tail(q))

\* the sample numbers of the frames q, in order
RECURSIVE Flat(_)
Flat(q) == IF q = <<>> THEN <<>> ELSE Head(q) \o Flat(Tail(q))

\* C31: the samples in the buffer, then those of the messages on the port,
\* then those of the frames waiting for their timer are exactly the samples
\* received on the socket in the order they were received, and the blocks
\* sent on the socket are in capture order.
C31_ArrivalAndCaptureOrder ==
    /\ ap.buffer \o Samples(toWorklet) \o Flat(timers) = Frame(1, nextSample - 1)
    /\ \A i, j \in 1..Len(capture.sent) : i < j => capture.sent[i] <= capture.sent[j]

\* two frames have gone through timers and port into the buffer and two
\* blocks have been sent
C31_Witness ==
    /\ lastOp = "data"
    /\ Len(ap.buffer) > MaxFrame
    /\ timers = <<>>
    /\ toWorklet = <<>>
    /\ Len(capture.sent) >= 2
    /\ capture.sent[1] < capture.sent[Len(capture.sent)]

(***************************************************************************)
(* Claims about compaction (CompactionSpec).                               *)
(***************************************************************************)
\* C29: the processor and the processor that never compacts, fed with the
\* same appends and clears and pulled at the same times, give the same
\* output block and the same notifications in every step, and their unread
\* parts (buffer from position to the end) are equal in every state.
C29_CompactionUnobservable ==
    /\ lastOp # "new" => (shadow.output = output /\ shadow.posted = posted)
    /\ SubSeq(shadow.p.buffer, shadow.p.position + 1, Len(shadow.p.buffer))
           = SubSeq(ap.buffer, ap.position + 1, Len(ap.buffer))
    /\ [shadow.p EXCEPT !.buffer = <<>>, !.position = 0]
           = [ap EXCEPT !.buffer = <<>>, !.position = 0]

\* a block of samples was played after a compaction
C29_Witness ==
    /\ lastOp = "process"
    /\ output # Zeros
    /\ ap.position > 0
    /\ shadow.p.position > sampleRate * 5 + ap.position
    /\ Len(shadow.p.buffer) > Len(ap.buffer)

\* C30: position <= 5 * sampleRate in every state, whatever the appends and
\* pulls made.
C30_ConsumedPrefixBounded == ap.position <= sampleRate * 5

\* the pull that took the cursor past 5 * sampleRate has dropped the prefix
C30_Witness ==
    /\ lastOp = "process"
    /\ ap.position = 0
    /\ shadow.p.position > sampleRate * 5
    /\ shadow.p.position <= sampleRate * 5 + BlockSize
    /\ Len(ap.buffer) = Len(shadow.p.buffer) - shadow.p.position

(***************************************************************************)
(* Claims about the PCM16 codec (CodecSpec).                               *)
(***************************************************************************)
Abs(x) == IF x < 0 THEN -x ELSE x

\* C23: a sample in [-1, 1] that went through floatToPcm16, the byte buffer
\* and pcm16ToFloat differs from the original by at most 1/32768.
C23_RoundTripWithinOneStep ==
    (codec.phase = "float" /\ Abs(codec.input) <= GridDen) =>
        Abs(codec.input * 32768 - codec.float * GridDen) <= GridDen

\* C24: floatToPcm16 returns a value in [-32768, 32767] that is the scaled
\* clamped sample with its fraction dropped, never a wrapped one: samples at
\* or below -1 give -32768 and samples at or above +1 give 32767.
C24_EncodedInRangeNoWrap ==
    codec.phase # "input" =>
        /\ codec.pcm16 \in -32768..32767
        /\ codec.input <= -GridDen => codec.pcm16 = -32768
        /\ codec.input >= GridDen => codec.pcm16 = 32767
        /\ (codec.input < 0) => codec.pcm16 <= 0
        /\ (codec.input >= 0) => codec.pcm16 >= 0
        /\ \A m \in (-2 * GridDen)..(2 * GridDen) :
               m <= codec.input => floatToPcm16(m) <= codec.pcm16

\* a sample above +1 has been encoded
C24_Witness ==
    /\ codec.phase = "pcm16"
    /\ codec.input > GridDen
    /\ codec.pcm16 = 32767


====
